---- MODULE Spec2Model ----
(***************************************************************************)
(* Model of utils/check_cookies.py: the account refresh pipeline           *)
(* (refresh_cookies), the enable/disable state machine (enable_account,    *)
(* disable_account), the batch coordinator (check_and_refresh_accounts,    *)
(* refresh_single_account) and the daily reset (reset_account_counts).     *)
(*                                                                         *)
(* The store holds the committed rows of the tokens table.  Every unit of  *)
(* work owns a session: the ORM object it loaded (obj) and the set of      *)
(* attributes it assigned since its last commit (dirty).  db.commit()      *)
(* writes exactly the dirty attributes to the row.                         *)
(***************************************************************************)
EXTENDS Integers, Sequences, FiniteSets, TLC

VARIABLES
    store,      \* committed rows of the tokens table, by account id
    cache,      \* Redis cache: partition -> id -> snapshot or NoEntry
    now,        \* wall clock when the running batch started, in minutes
    cpc,        \* position of the control thread
    accounts,   \* ids loaded by the running batch / reset query
    submitted,  \* ids whose unit was submitted to the executor in this batch
    left,       \* what the run may still do: batches, resets, deletions
    upc,        \* position of each unit of work
    obj,        \* the ORM object held by each unit's session
    dirty,      \* attributes assigned since the session's last commit
    success,    \* value returned by refresh_cookies in each unit
    robj,       \* ORM objects held by the daily reset's session
    rdirty,     \* ids whose count the daily reset assigned
    rtodo,      \* ids the daily reset's for loop has not visited yet
    hist,       \* history: what each unit of work has done
    rhist,      \* history: what the running / last daily reset has done
    faulted,    \* history: some cache call has failed so far
    cexc,       \* the except clause of check_and_refresh_accounts has run
    _running,   \* the module's flag of line 231
    spc,        \* position of each thread that calls run_scheduler
    jobs,       \* jobs registered with the schedule module, in order
    due,        \* indices of the registered jobs whose next run has come
    todo,       \* per thread: the due jobs its run_pending has yet to run
    cur,        \* per thread: the job it is running, 0 for none
    shist,      \* history: stops, late dispatches, raising loops
    sleft,      \* what the run may still do: starts, stops, ticks, faults
    pool        \* the ThreadPoolExecutor of one batch, as counts of units

vars == <<store, cache, now, cpc, accounts, submitted, left,
          upc, obj, dirty, success, robj, rdirty, rtodo, hist, rhist, faulted,
          cexc, _running, spc, jobs, due, todo, cur, shist, sleft, pool>>

schedvars == <<_running, spc, jobs, due, todo, cur, shist, sleft>>

----------------------------------------------------------------------------
(* Bounds of the model *)

NumAccounts == 2
MaxBatches == 1
MaxSeqBatches == 2
MaxResets == 1
MaxDeletes == 1
MaxNow == 1
NumCallers == 2
MaxStarts == 2
MaxStops == 1
MaxTicks == 1
MaxFaults == 1
PoolAccounts == 22

(* Program constants *)

CHECK_INTERVAL_SECONDS == 600
MAX_WORKER_THREADS == 20
COOKIES_VALID_DAYS == 30
TOKEN_VALID_MINUTES == 15

Ids == 1 .. NumAccounts
MinutesPerDay == 24 * 60

----------------------------------------------------------------------------
(* JSON texts and values.  A text is a sequence of lexical tokens; a value *)
(* is [kind, v] with v the sequence of its scalar parts.                   *)

P(c) == [t |-> "punct", s |-> c]
S(x) == [t |-> "str", s |-> x]
N(x) == [t |-> "num", s |-> x]
W(x) == [t |-> "word", s |-> x]

JDict(v) == [kind |-> "dict", v |-> v]
JList(v) == [kind |-> "list", v |-> v]
JStr(x) == [kind |-> "str", v |-> <<x>>]
JNum(x) == [kind |-> "num", v |-> <<x>>]
JNone == [kind |-> "none", v |-> <<>>]
JError == [kind |-> "JSONDecodeError", v |-> <<>>]

\* json.dumps of a mapping with at most one string key and string value
json_dumps(j) ==
    IF j.v = <<>> THEN <<P("{"), P("}")>>
    ELSE <<P("{"), S(j.v[1]), P(":"), S(j.v[2]), P("}")>>

\* json.loads: the value a text denotes, JError when it is not JSON
json_loads(text) ==
    CASE Len(text) = 1 /\ text[1].t = "str" -> JStr(text[1].s)
      [] Len(text) = 1 /\ text[1].t = "num" -> JNum(text[1].s)
      [] Len(text) = 1 /\ text[1] = W("null") -> JNone
      [] text = <<P("{"), P("}")>> -> JDict(<<>>)
      [] text = <<P("["), P("]")>> -> JList(<<>>)
      [] Len(text) = 3 /\ text[1] = P("[") /\ text[3] = P("]")
            /\ text[2].t \in {"str", "num"} -> JList(<<text[2].s>>)
      [] Len(text) = 5 /\ text[1] = P("{") /\ text[5] = P("}")
            /\ text[3] = P(":") /\ text[2].t = "str" /\ text[4].t = "str"
            -> JDict(<<text[2].s, text[4].s>>)
      [] OTHER -> JError

\* Python truth value of a JSON value
Truthy(j) ==
    CASE j.kind \in {"dict", "list"} -> j.v # <<>>
      [] j.kind = "str" -> j.v[1] # ""
      [] j.kind = "num" -> j.v[1] # "0"
      [] OTHER -> FALSE

\* parse_cookies_to_dict: {} for an empty or undecodable string
parse_cookies_to_dict(cookies_str) ==
    IF cookies_str = <<>> THEN JDict(<<>>)
    ELSE IF json_loads(cookies_str) = JError THEN JDict(<<>>)
    ELSE json_loads(cookies_str)

----------------------------------------------------------------------------
(* Rows of the tokens table *)

Fields == {"enable", "silent_cookies", "access_token", "token", "auth",
           "account_type", "count", "cookies_expires", "token_expires",
           "updated_at", "deleted_at"}

Row(en, sc, at, tk, ty, cnt) ==
    [enable |-> en, silent_cookies |-> sc, access_token |-> at, token |-> tk,
     auth |-> <<>>, account_type |-> ty, count |-> cnt, cookies_expires |-> 0,
     token_expires |-> 0, updated_at |-> 0, deleted_at |-> "NULL"]

TextAB == json_dumps(JDict(<<"a", "b">>))

\* rows the table may hold when the service starts
InitRows ==
    { Row(1, TextAB, "", "", "paid", 5),
      Row(1, TextAB, "tok0", "sess0", "free", 0),
      Row(0, <<W("not-json")>>, "", "", "free", 5),
      Row(1, <<P("["), N("1"), P("]")>>, "tok0", "sess0", "free", 0),
      Row(0, <<>>, "", "", "None", 0) }

\* a row that external tooling soft-deleted before the service started
Gone == [Row(0, <<>>, "", "", "None", 0) EXCEPT !.deleted_at = "SET"]

\* the place of a row that has been deleted from the table
NoRow == [Gone EXCEPT !.deleted_at = "NOROW"]

\* token_to_dict: the snapshot of an account that is mirrored into the cache
token_to_dict(o) == [enable |-> o.enable, count |-> o.count]

NoEntry == [enable |-> -1, count |-> -1]

Partitions == {"free", "paid"}

\* the cache as the account manager keeps it for the rows of the table
CacheOf(rows) ==
    [p \in Partitions |-> [i \in Ids |->
        IF rows[i].enable = 1 /\ (p = "free" \/ rows[i].account_type = "paid")
        THEN token_to_dict(rows[i]) ELSE NoEntry]]

\* what a unit has done: the row it loaded, the client calls it made and
\* what they answered, whether line 96 committed, the transition applied
NoHist == [row0 |-> Row(0, <<>>, "", "", "None", 0), called |-> {},
           refresh |-> "none", answer |-> JNone, token_got |-> "", at |-> 0,
           signin |-> "none", session |-> "", auth |-> "none", data |-> JNone,
           committed3 |-> FALSE, outcome |-> "none", raised |-> FALSE,
           escaped |-> FALSE, opened |-> FALSE, closed |-> FALSE,
           cache0 |-> [p \in Partitions |-> NoEntry]]

\* what the daily reset has done: the store and cache it found, the accounts
\* its query loaded, its commits, the cache puts that went through, the
\* accounts whose cache block failed, and the store and cache it left
NoRHist(rows) ==
    [phase |-> "none", store0 |-> rows, cache0 |-> CacheOf(rows), loaded |-> {},
     commits |-> 0, puts |-> {}, failed |-> {}, store1 |-> rows,
     cache1 |-> CacheOf(rows)]

\* threads that may call run_scheduler
Callers == 1 .. NumCallers

\* lines 231-262 before any call: the flag is False, no job is registered
InitScheduler ==
    /\ _running = FALSE
    /\ spc = [t \in Callers |-> "idle"]
    /\ jobs = <<>>
    /\ due = {}
    /\ todo = [t \in Callers |-> {}]
    /\ cur = [t \in Callers |-> 0]
    /\ shist = [stopped |-> FALSE, late |-> FALSE,
                raised |-> [t \in Callers |-> FALSE]]
    /\ sleft = [starts |-> MaxStarts, stops |-> MaxStops, ticks |-> MaxTicks,
                faults |-> MaxFaults]

\* line 183: the executor of a batch before its first submit
InitPool ==
    pool = [total |-> 0, tosubmit |-> 0, threads |-> 0, queued |-> 0,
            running |-> 0, done |-> 0, opened |-> 0, closed |-> 0]

Init ==
    /\ store \in [Ids -> InitRows]
    /\ cache = CacheOf(store)
    /\ now = 0
    /\ cpc = "idle"
    /\ accounts = {}
    /\ submitted = {}
    /\ left = [batches |-> MaxBatches, resets |-> MaxResets, deletes |-> MaxDeletes]
    /\ upc = [i \in Ids |-> "idle"]
    /\ obj = [i \in Ids |-> store[i]]
    /\ dirty = [i \in Ids |-> {}]
    /\ success = [i \in Ids |-> "none"]
    /\ robj = store
    /\ rdirty = {}
    /\ rtodo = {}
    /\ hist = [i \in Ids |-> NoHist]
    /\ rhist = NoRHist(store)
    /\ faulted = FALSE
    /\ cexc = FALSE
    /\ InitScheduler
    /\ InitPool

----------------------------------------------------------------------------
(* Sessions *)

\* db.commit(): the row with the session's dirty attributes written to it
Committed(row, o, d) == [f \in Fields |-> IF f \in d THEN o[f] ELSE row[f]]

\* the units of work that occupy a worker thread of the executor
Running == {i \in Ids : upc[i] \notin {"idle", "queued", "done"}}

Min(s) == CHOOSE x \in s : \A y \in s : x <= y

----------------------------------------------------------------------------
(* The Refresh Client (utils.register): what its three calls may answer *)

MapAB == JDict(<<"a", "b">>)
MapAC == JDict(<<"a", "c">>)

RefreshAnswers ==
    { [raises |-> TRUE, ok |-> FALSE, updated |-> JNone, access_token |-> ""],
      [raises |-> FALSE, ok |-> FALSE, updated |-> JNone, access_token |-> ""],
      [raises |-> FALSE, ok |-> TRUE, updated |-> JDict(<<>>), access_token |-> "tok123"],
      [raises |-> FALSE, ok |-> TRUE, updated |-> MapAC, access_token |-> ""],
      [raises |-> FALSE, ok |-> TRUE, updated |-> MapAC, access_token |-> "tok123"] }

SigninAnswers ==
    { [raises |-> TRUE, token |-> ""],
      [raises |-> FALSE, token |-> ""],
      [raises |-> FALSE, token |-> "sess1"] }

AuthAnswers ==
    { [raises |-> TRUE, data |-> JNone],
      [raises |-> FALSE, data |-> JNone],
      [raises |-> FALSE, data |-> JDict(<<"account_type", "paid">>)],
      [raises |-> FALSE, data |-> JDict(<<"account_type", "free">>)] }

\* the Refresh Client reports success with a non-empty mapping and token
ReportsSuccess(ans) ==
    ~ans.raises /\ ans.ok /\ ans.updated.v # <<>> /\ ans.access_token # ""

\* auth_data.get("account_type", None)
AccountTypeOf(data) ==
    IF data.v # <<>> /\ data.v[1] = "account_type" THEN data.v[2] ELSE "None"

----------------------------------------------------------------------------
(* refresh_cookies *)

\* lines 74-81: the stored blob is non-empty and parses to a truthy value
CookiesUsable(o) ==
    /\ o.silent_cookies # <<>>
    /\ Truthy(parse_cookies_to_dict(o.silent_cookies))

\* line 86 without its test of the access token
RefreshAccepted_no_token_test(ans) ==
    /\ ans.ok
    /\ Truthy(ans.updated)

\* line 86: the answer of refresh_silent_cookies is accepted
RefreshAccepted(ans) ==
    /\ ans.ok
    /\ Truthy(ans.updated)
    /\ ans.access_token # ""

\* lines 89-95 without the assignment of cookies_expires
Refreshed_stale_expiry(o, ans, t) ==
    [o EXCEPT !.silent_cookies = json_dumps(ans.updated),
              !.access_token = ans.access_token,
              !.token_expires = t + TOKEN_VALID_MINUTES,
              !.updated_at = t,
              !.enable = 1]

\* lines 89-95: the attributes assigned from an accepted answer
Refreshed(o, ans, t) ==
    [o EXCEPT !.silent_cookies = json_dumps(ans.updated),
              !.access_token = ans.access_token,
              !.cookies_expires = t + COOKIES_VALID_DAYS * MinutesPerDay,
              !.token_expires = t + TOKEN_VALID_MINUTES,
              !.updated_at = t,
              !.enable = 1]

\* lines 89-95 with the expiry assignments left out of the commit
RefreshedFields_without_expiry == {"silent_cookies", "access_token",
                                   "updated_at", "enable"}

\* lines 89-95: the attributes assigned before the commit at line 96
RefreshedFields == {"silent_cookies", "access_token", "cookies_expires",
                    "token_expires", "updated_at", "enable"}

\* line 98 without its test of account.token
SigninNeeded_every_run(o) == o.access_token # ""

\* line 98: the session token is still to be derived
SigninNeeded(o) == o.access_token # "" /\ o.token = ""

Record(i, what) == [hist EXCEPT ![i] = what]

\* lines 150-152 with a return that skips the finally block
AfterNotFound_no_finally == "done"

\* lines 150-152, 164-166: the return of the not-found branch runs the
\* finally block, which closes the session
AfterNotFound == "close"

\* lines 147-81: open the session, load the account by id, return when
\* there is no such row, check its blob
refresh_single_account_begin(i) ==
    /\ upc[i] = "queued"
    /\ Cardinality(Running) < MAX_WORKER_THREADS
    /\ obj' = [obj EXCEPT ![i] = store[i]]
    /\ dirty' = [dirty EXCEPT ![i] = {}]
    /\ hist' = Record(i, [hist[i] EXCEPT
                    !.row0 = store[i],
                    !.opened = TRUE,
                    !.cache0 = [p \in Partitions |-> cache[p][i]],
                    !.outcome = IF store[i] = NoRow THEN "not_found" ELSE @])
    /\ IF store[i] = NoRow
       THEN /\ upc' = [upc EXCEPT ![i] = AfterNotFound]
            /\ UNCHANGED success
       ELSE IF CookiesUsable(store[i])
       THEN /\ upc' = [upc EXCEPT ![i] = "refresh"]
            /\ UNCHANGED success
       ELSE /\ upc' = [upc EXCEPT ![i] = "disable"]
            /\ success' = [success EXCEPT ![i] = "false"]
    /\ UNCHANGED <<store, cache, now, cpc, accounts, submitted, left, robj,
                   rdirty, rtodo, rhist, faulted>>
    /\ UNCHANGED <<cexc, schedvars, pool>>

\* lines 84-95: call refresh_silent_cookies and take over its answer
refresh_cookies_call(i) ==
    /\ upc[i] = "refresh"
    /\ \E ans \in RefreshAnswers :
        /\ hist' = Record(i, [hist[i] EXCEPT
                        !.called = @ \cup {"refresh"},
                        !.refresh = IF ReportsSuccess(ans) THEN "success" ELSE "failure",
                        !.answer = IF ReportsSuccess(ans) THEN ans.updated ELSE JNone,
                        !.token_got = IF ReportsSuccess(ans) THEN ans.access_token ELSE "",
                        !.at = IF ReportsSuccess(ans) THEN now ELSE 0])
        /\ IF ~ans.raises /\ RefreshAccepted(ans)
           THEN /\ obj' = [obj EXCEPT ![i] = Refreshed(@, ans, now)]
                /\ dirty' = [dirty EXCEPT ![i] = @ \cup RefreshedFields]
                /\ upc' = [upc EXCEPT ![i] = "commit"]
                /\ UNCHANGED success
           ELSE /\ upc' = [upc EXCEPT ![i] = "disable"]
                /\ success' = [success EXCEPT ![i] = "false"]
                /\ UNCHANGED <<obj, dirty>>
    /\ UNCHANGED <<store, cache, now, cpc, accounts, submitted, left, robj,
                   rdirty, rtodo, rhist, faulted>>
    /\ UNCHANGED <<cexc, schedvars, pool>>

\* line 96: db.commit() of the refreshed credential
refresh_cookies_commit(i) ==
    /\ upc[i] = "commit"
    /\ store' = [store EXCEPT ![i] = Committed(@, obj[i], dirty[i])]
    /\ dirty' = [dirty EXCEPT ![i] = {}]
    /\ hist' = Record(i, [hist[i] EXCEPT !.committed3 = TRUE])
    /\ upc' = [upc EXCEPT ![i] = IF SigninNeeded(obj[i]) THEN "signin" ELSE "authinfo"]
    /\ UNCHANGED <<cache, now, cpc, accounts, submitted, left,
                   obj, success, robj, rdirty, rtodo, rhist, faulted>>
    /\ UNCHANGED <<cexc, schedvars, pool>>

\* lines 99-100: signin_with_access_token and account.token = auth0.get('token')
refresh_cookies_signin(i) ==
    /\ upc[i] = "signin"
    /\ \E ans \in SigninAnswers :
        /\ hist' = Record(i, [hist[i] EXCEPT
                        !.called = @ \cup {"signin"},
                        !.signin = IF ans.raises THEN "raised" ELSE "answered",
                        !.session = ans.token])
        /\ IF ans.raises
           THEN /\ upc' = [upc EXCEPT ![i] = "disable"]
                /\ success' = [success EXCEPT ![i] = "false"]
                /\ UNCHANGED <<obj, dirty>>
           ELSE /\ obj' = [obj EXCEPT ![i].token = ans.token]
                /\ dirty' = [dirty EXCEPT ![i] = @ \cup {"token"}]
                /\ upc' = [upc EXCEPT ![i] = "authinfo"]
                /\ UNCHANGED success
    /\ UNCHANGED <<store, cache, now, cpc, accounts, submitted, left, robj,
                   rdirty, rtodo, rhist, faulted>>
    /\ UNCHANGED <<cexc, schedvars, pool>>

\* lines 102-111: fetch_auth_info, account.auth and account.account_type
refresh_cookies_authinfo(i) ==
    /\ upc[i] = "authinfo"
    /\ \E ans \in AuthAnswers :
        /\ hist' = Record(i, [hist[i] EXCEPT
                        !.called = @ \cup {"authinfo"},
                        !.auth = IF ans.raises THEN "raised" ELSE "answered",
                        !.data = ans.data])
        /\ IF ans.raises
           THEN /\ upc' = [upc EXCEPT ![i] = "disable"]
                /\ success' = [success EXCEPT ![i] = "false"]
                /\ UNCHANGED <<obj, dirty>>
           ELSE /\ upc' = [upc EXCEPT ![i] = "enable"]
                /\ success' = [success EXCEPT ![i] = "true"]
                /\ IF Truthy(ans.data)
                   THEN /\ obj' = [obj EXCEPT ![i].auth = json_dumps(ans.data),
                                              ![i].account_type = AccountTypeOf(ans.data)]
                        /\ dirty' = [dirty EXCEPT ![i] = @ \cup {"auth", "account_type"}]
                   ELSE UNCHANGED <<obj, dirty>>
    /\ UNCHANGED <<store, cache, now, cpc, accounts, submitted, left, robj,
                   rdirty, rtodo, rhist, faulted>>
    /\ UNCHANGED <<cexc, schedvars, pool>>

----------------------------------------------------------------------------
(* The cache mirror (utils.redis_cache, utils.account_manager) *)

\* how one guarded cache block may go: the probe answers up or down or
\* raises, and with the probe up the fail_at-th call raises (0: none does)
CacheOutcomes ==
    {[probe |-> "down", fail_at |-> 0], [probe |-> "raise", fail_at |-> 0]}
    \cup {[probe |-> "up", fail_at |-> k] : k \in 0 .. 2}

\* lines 124-126, 137-139, 216-218: the partitions an account is mirrored in
Targets(o) == IF o.account_type = "paid" THEN <<"free", "paid">> ELSE <<"free">>

\* the partitions whose call returns before the block ends
Reached(targets, oc) ==
    IF oc.probe # "up" THEN {}
    ELSE {targets[k] : k \in {n \in 1 .. Len(targets) : oc.fail_at = 0 \/ n < oc.fail_at}}

\* the block met a failing probe or a raising call
Failed(targets, oc) ==
    oc.probe # "up" \/ (oc.fail_at # 0 /\ oc.fail_at <= Len(targets))

cache_account(c, i, data, parts) ==
    [p \in Partitions |-> IF p \in parts THEN [c[p] EXCEPT ![i] = data] ELSE c[p]]

remove_cached_account(c, i, parts) ==
    [p \in Partitions |-> IF p \in parts THEN [c[p] EXCEPT ![i] = NoEntry] ELSE c[p]]

----------------------------------------------------------------------------
(* enable_account and disable_account *)

\* lines 132-133: account.enable = 1; db.commit()
enable_account_commit(i) ==
    /\ upc[i] = "enable"
    /\ obj' = [obj EXCEPT ![i].enable = 1]
    /\ store' = [store EXCEPT ![i] = Committed(@, obj'[i], dirty[i] \cup {"enable"})]
    /\ dirty' = [dirty EXCEPT ![i] = {}]
    /\ hist' = Record(i, [hist[i] EXCEPT !.outcome = "enabled"])
    /\ upc' = [upc EXCEPT ![i] = "enable_cache"]
    /\ UNCHANGED <<cache, now, cpc, accounts, submitted, left,
                   success, robj, rdirty, rtodo, rhist, faulted>>
    /\ UNCHANGED <<cexc, schedvars, pool>>

\* lines 134-141: mirror the account into the cache, best effort
enable_account_cache(i) ==
    /\ upc[i] = "enable_cache"
    /\ \E oc \in CacheOutcomes :
        LET parts == Reached(Targets(obj[i]), oc) IN
        /\ cache' = cache_account(cache, i, token_to_dict(obj[i]), parts)
        /\ faulted' = (faulted \/ Failed(Targets(obj[i]), oc))
    /\ upc' = [upc EXCEPT ![i] = "close"]
    /\ UNCHANGED <<store, now, cpc, accounts, submitted, left, obj, dirty,
                   success, robj, rdirty, rtodo, hist, rhist>>
    /\ UNCHANGED <<cexc, schedvars, pool>>

\* lines 120-121: account.enable = 0; db.commit()
disable_account_commit(i) ==
    /\ upc[i] = "disable"
    /\ obj' = [obj EXCEPT ![i].enable = 0]
    /\ store' = [store EXCEPT ![i] = Committed(@, obj'[i], dirty[i] \cup {"enable"})]
    /\ dirty' = [dirty EXCEPT ![i] = {}]
    /\ hist' = Record(i, [hist[i] EXCEPT !.outcome = "disabled"])
    /\ upc' = [upc EXCEPT ![i] = "disable_cache"]
    /\ UNCHANGED <<cache, now, cpc, accounts, submitted, left,
                   success, robj, rdirty, rtodo, rhist, faulted>>
    /\ UNCHANGED <<cexc, schedvars, pool>>

\* lines 122-128: remove the account from the cache, best effort
disable_account_cache(i) ==
    /\ upc[i] = "disable_cache"
    /\ \E oc \in CacheOutcomes :
        LET parts == Reached(Targets(obj[i]), oc) IN
        /\ cache' = remove_cached_account(cache, i, parts)
        /\ faulted' = (faulted \/ Failed(Targets(obj[i]), oc))
    /\ upc' = [upc EXCEPT ![i] = "close"]
    /\ UNCHANGED <<store, now, cpc, accounts, submitted, left, obj, dirty,
                   success, robj, rdirty, rtodo, hist, rhist>>
    /\ UNCHANGED <<cexc, schedvars, pool>>

\* lines 164-166: the finally block closes the session
refresh_single_account_close(i) ==
    /\ upc[i] = "close"
    /\ upc' = [upc EXCEPT ![i] = "done"]
    /\ hist' = Record(i, [hist[i] EXCEPT !.closed = TRUE])
    /\ UNCHANGED <<store, cache, now, cpc, accounts, submitted, left, obj,
                   dirty, success, robj, rdirty, rtodo, rhist, faulted>>
    /\ UNCHANGED <<cexc, schedvars, pool>>

----------------------------------------------------------------------------
(* check_and_refresh_accounts *)

\* line 175 with the filter of line 202
Live_enabled_only(rows) ==
    {i \in Ids : rows[i].deleted_at = "NULL" /\ rows[i].enable = 1}

\* line 175: Token.deleted_at == None
Live(rows) == {i \in Ids : rows[i].deleted_at = "NULL"}

\* lines 174-179: load the live accounts; return when there are none.
\* The clock is read here: it has advanced since the previous batch.
check_and_refresh_accounts_query ==
    /\ cpc = "idle"
    /\ left.batches > 0
    /\ left' = [left EXCEPT !.batches = @ - 1]
    /\ \E t \in now .. MaxNow : now' = t
    /\ accounts' = Live(store)
    /\ submitted' = {}
    /\ upc' = [i \in Ids |-> "idle"]
    /\ cpc' = IF Live(store) = {} THEN "idle" ELSE "submit"
    /\ cexc' = FALSE
    /\ UNCHANGED <<schedvars, pool>>
    /\ UNCHANGED <<store, cache, obj, dirty, success, robj, rdirty, rtodo,
                   hist, rhist, faulted>>

\* lines 183-185: executor.submit(refresh_single_account, account.id)
check_and_refresh_accounts_submit ==
    /\ cpc = "submit"
    /\ LET i == Min(accounts \ submitted) IN
        /\ submitted' = submitted \cup {i}
        /\ upc' = [upc EXCEPT ![i] = "queued"]
        /\ success' = [success EXCEPT ![i] = "none"]
        /\ hist' = Record(i, NoHist)
        /\ cpc' = IF submitted' = accounts THEN "join" ELSE "submit"
    /\ UNCHANGED <<store, cache, now, accounts, left, obj, dirty,
                   robj, rdirty, rtodo, rhist, faulted>>
    /\ UNCHANGED <<cexc, schedvars, pool>>

\* lines 184-185 with the result of every Future read
ResultRead_every_future(i) == TRUE

\* lines 184-185: whether the coordinator reads the result of the unit's
\* Future, which re-raises what the unit raised; the Future that
\* executor.submit returns is dropped
ResultRead(i) == FALSE

\* line 183 with an executor that is left without waiting
AllUnitsDone_no_wait == TRUE

\* lines 183-185: the with block ends by executor.shutdown(wait=True)
AllUnitsDone == \A i \in submitted : upc[i] = "done"

\* lines 183-193: leaving the with block waits for every submitted unit; an
\* exception raised inside the try runs the except clause at line 189
check_and_refresh_accounts_join ==
    /\ cpc = "join"
    /\ AllUnitsDone
    /\ cpc' = "idle"
    /\ cexc' = \E i \in submitted : hist[i].escaped /\ ResultRead(i)
    /\ UNCHANGED <<schedvars, pool>>
    /\ UNCHANGED <<store, cache, now, accounts, submitted, left,
                   upc, obj, dirty, success, robj, rdirty, rtodo, hist, rhist,
                   faulted>>

----------------------------------------------------------------------------
(* reset_account_counts *)

\* line 202 without its test of Token.enable
Resettable_all_live(rows) == {i \in Ids : rows[i].deleted_at = "NULL"}

\* line 202: Token.enable == 1, Token.deleted_at == None
Resettable(rows) == {i \in Live(rows) : rows[i].enable = 1}

\* line 210: the account's count is reset
NeedsReset(o) == o.count > 0

\* lines 213-220 without the try statement: a failing cache block ends the loop
CacheErrorEscapes_unguarded(targets, oc) ==
    oc.probe = "raise" \/ (oc.fail_at # 0 /\ oc.fail_at <= Len(targets))

\* lines 219-220: whether what the cache block raises leaves the try
\* statement; `except Exception` catches it
CacheErrorEscapes(targets, oc) == FALSE

\* the reset has returned: its history keeps the store and cache it left
Finished(h, rows, c) ==
    [h EXCEPT !.phase = "finished", !.store1 = rows, !.cache1 = c]

\* lines 201-206: load the enabled live accounts; return when there are none
reset_account_counts_query ==
    /\ cpc = "idle"
    /\ left.resets > 0
    /\ left' = [left EXCEPT !.resets = @ - 1]
    /\ robj' = store
    /\ rdirty' = {}
    /\ accounts' = Resettable(store)
    /\ rtodo' = Resettable(store)
    /\ LET h == [NoRHist(store) EXCEPT !.cache0 = cache,
                                       !.loaded = Resettable(store),
                                       !.phase = "running"] IN
        IF Resettable(store) = {}
        THEN /\ cpc' = "idle"
             /\ rhist' = Finished(h, store, cache)
        ELSE /\ cpc' = "reset_loop"
             /\ rhist' = h
    /\ UNCHANGED <<store, cache, now, submitted, upc, obj, dirty, success,
                   hist, faulted>>
    /\ UNCHANGED <<cexc, schedvars, pool>>

\* lines 209-220: one iteration of the for loop; lines 225-229 when the
\* iteration raises
reset_account_counts_step ==
    /\ cpc = "reset_loop"
    /\ rtodo # {}
    /\ LET i == Min(rtodo) IN
        IF NeedsReset(robj[i])
        THEN \E oc \in CacheOutcomes :
                LET targets == Targets(robj[i])
                    parts == Reached(targets, oc)
                    o == [robj[i] EXCEPT !.count = 0]
                    c == cache_account(cache, i, token_to_dict(o), parts)
                    h == [rhist EXCEPT
                            !.puts = @ \cup {<<i, p>> : p \in parts},
                            !.failed = @ \cup (IF Failed(targets, oc) THEN {i} ELSE {})]
                IN  /\ robj' = [robj EXCEPT ![i] = o]
                    /\ cache' = c
                    /\ faulted' = (faulted \/ Failed(targets, oc))
                    /\ IF CacheErrorEscapes(targets, oc)
                       THEN /\ rdirty' = {}
                            /\ rtodo' = {}
                            /\ cpc' = "idle"
                            /\ rhist' = Finished(h, store, c)
                       ELSE /\ rdirty' = rdirty \cup {i}
                            /\ rtodo' = rtodo \ {i}
                            /\ cpc' = cpc
                            /\ rhist' = h
        ELSE /\ rtodo' = rtodo \ {i}
             /\ UNCHANGED <<robj, rdirty, cache, rhist, faulted, cpc>>
    /\ UNCHANGED <<store, now, accounts, submitted, left, upc, obj, dirty,
                   success, hist>>
    /\ UNCHANGED <<cexc, schedvars, pool>>

\* line 222: db.commit() after the loop
reset_account_counts_commit ==
    /\ cpc = "reset_loop"
    /\ rtodo = {}
    /\ store' = [i \in Ids |->
                    IF i \in rdirty THEN Committed(store[i], robj[i], {"count"})
                    ELSE store[i]]
    /\ rdirty' = {}
    /\ rhist' = Finished([rhist EXCEPT !.commits = @ + 1], store', cache)
    /\ cpc' = "idle"
    /\ UNCHANGED <<cache, now, accounts, submitted, left, upc,
                   obj, dirty, success, robj, rtodo, hist, faulted>>
    /\ UNCHANGED <<cexc, schedvars, pool>>

----------------------------------------------------------------------------
(* The environment *)

\* external tooling soft-deletes an account
soft_delete(i) ==
    /\ store[i].deleted_at = "NULL"
    /\ left.deletes > 0
    /\ left' = [left EXCEPT !.deletes = @ - 1]
    /\ store' = [store EXCEPT ![i].deleted_at = "SET"]
    /\ UNCHANGED <<cache, now, cpc, accounts, submitted,
                   upc, obj, dirty, success, robj, rdirty, rtodo, hist, rhist,
                   faulted>>
    /\ UNCHANGED <<cexc, schedvars, pool>>

BatchSteps ==
    \/ check_and_refresh_accounts_query
    \/ check_and_refresh_accounts_submit
    \/ check_and_refresh_accounts_join

UnitSteps ==
    \E i \in Ids :
        \/ refresh_single_account_begin(i)
        \/ refresh_cookies_call(i)
        \/ refresh_cookies_commit(i)
        \/ refresh_cookies_signin(i)
        \/ refresh_cookies_authinfo(i)
        \/ enable_account_commit(i)
        \/ enable_account_cache(i)
        \/ disable_account_commit(i)
        \/ disable_account_cache(i)
        \/ refresh_single_account_close(i)

ResetSteps ==
    \/ reset_account_counts_query
    \/ reset_account_counts_step
    \/ reset_account_counts_commit

Next ==
    \/ BatchSteps
    \/ UnitSteps
    \/ ResetSteps
    \/ \E i \in Ids : soft_delete(i)

Spec == Init /\ [][Next]_vars

\* one live account beside soft-deleted ones, refreshed by several batches
InitSeq ==
    /\ store \in {r \in [Ids -> InitRows \cup {Gone}] :
                    r[1] \in InitRows /\ \A i \in Ids \ {1} : r[i] = Gone}
    /\ cache = CacheOf(store)
    /\ now = 0
    /\ cpc = "idle"
    /\ accounts = {}
    /\ submitted = {}
    /\ left = [batches |-> MaxSeqBatches, resets |-> MaxResets, deletes |-> 0]
    /\ upc = [i \in Ids |-> "idle"]
    /\ obj = [i \in Ids |-> store[i]]
    /\ dirty = [i \in Ids |-> {}]
    /\ success = [i \in Ids |-> "none"]
    /\ robj = store
    /\ rdirty = {}
    /\ rtodo = {}
    /\ hist = [i \in Ids |-> NoHist]
    /\ rhist = NoRHist(store)
    /\ faulted = FALSE
    /\ cexc = FALSE
    /\ InitScheduler
    /\ InitPool

\* the batches and the daily reset, with no deletion beside them
NextSeq ==
    \/ BatchSteps
    \/ UnitSteps
    \/ ResetSteps

SpecSeq == InitSeq /\ [][NextSeq]_vars

----------------------------------------------------------------------------
(* Store calls that raise inside a unit of work *)

\* lines 147-148 raising: next(get_db()) raises with db still None, or the
\* lookup raises with the session open; line 162 catches either and the
\* finally block closes the session it finds
refresh_single_account_begin_raises(i) ==
    /\ upc[i] = "queued"
    /\ Cardinality(Running) < MAX_WORKER_THREADS
    /\ \E opened \in BOOLEAN :
        /\ upc' = [upc EXCEPT ![i] = IF opened THEN "close" ELSE "done"]
        /\ hist' = Record(i, [hist[i] EXCEPT
                        !.raised = TRUE,
                        !.opened = opened,
                        !.cache0 = [p \in Partitions |-> cache[p][i]]])
    /\ UNCHANGED <<store, cache, now, cpc, accounts, submitted, left, obj,
                   dirty, success, robj, rdirty, rtodo, rhist, faulted, cexc,
                   schedvars, pool>>

\* line 96 raising: caught at line 113, refresh_cookies returns False at
\* line 116; the session either keeps the pending assignments or has rolled
\* them back to the stored row
refresh_cookies_commit_raises(i) ==
    /\ upc[i] = "commit"
    /\ \E rolled_back \in BOOLEAN :
        IF rolled_back
        THEN /\ obj' = [obj EXCEPT ![i] = store[i]]
             /\ dirty' = [dirty EXCEPT ![i] = {}]
        ELSE UNCHANGED <<obj, dirty>>
    /\ success' = [success EXCEPT ![i] = "false"]
    /\ upc' = [upc EXCEPT ![i] = "disable"]
    /\ hist' = Record(i, [hist[i] EXCEPT !.raised = TRUE])
    /\ UNCHANGED <<store, cache, now, cpc, accounts, submitted, left, robj,
                   rdirty, rtodo, rhist, faulted, cexc,
                   schedvars, pool>>

\* line 133 raising: the exception leaves enable_account before its cache
\* block and is caught at line 162
enable_account_commit_raises(i) ==
    /\ upc[i] = "enable"
    /\ obj' = [obj EXCEPT ![i].enable = 1]
    /\ dirty' = [dirty EXCEPT ![i] = @ \cup {"enable"}]
    /\ upc' = [upc EXCEPT ![i] = "close"]
    /\ hist' = Record(i, [hist[i] EXCEPT !.raised = TRUE])
    /\ UNCHANGED <<store, cache, now, cpc, accounts, submitted, left, success,
                   robj, rdirty, rtodo, rhist, faulted, cexc,
                   schedvars, pool>>

\* line 121 raising: the exception leaves disable_account before its cache
\* block and is caught at line 162
disable_account_commit_raises(i) ==
    /\ upc[i] = "disable"
    /\ obj' = [obj EXCEPT ![i].enable = 0]
    /\ dirty' = [dirty EXCEPT ![i] = @ \cup {"enable"}]
    /\ upc' = [upc EXCEPT ![i] = "close"]
    /\ hist' = Record(i, [hist[i] EXCEPT !.raised = TRUE])
    /\ UNCHANGED <<store, cache, now, cpc, accounts, submitted, left, success,
                   robj, rdirty, rtodo, rhist, faulted, cexc,
                   schedvars, pool>>

\* line 166 raising: db.close() is called and raises inside the finally
\* block, after the
\* except clause of line 162; the exception leaves refresh_single_account
\* and is kept by the Future of the unit
refresh_single_account_close_raises(i) ==
    /\ upc[i] = "close"
    /\ upc' = [upc EXCEPT ![i] = "done"]
    /\ hist' = Record(i, [hist[i] EXCEPT !.raised = TRUE, !.escaped = TRUE,
                                         !.closed = TRUE])
    /\ UNCHANGED <<store, cache, now, cpc, accounts, submitted, left, obj,
                   dirty, success, robj, rdirty, rtodo, rhist, faulted, cexc,
                   schedvars, pool>>

FaultSteps ==
    \E i \in Ids :
        \/ refresh_single_account_begin_raises(i)
        \/ refresh_cookies_commit_raises(i)
        \/ enable_account_commit_raises(i)
        \/ disable_account_commit_raises(i)
        \/ refresh_single_account_close_raises(i)

NextFault ==
    \/ BatchSteps
    \/ UnitSteps
    \/ FaultSteps

\* one batch over live accounts whose store calls may raise, with no daily
\* reset and no deletion beside it
InitFault ==
    /\ store \in [Ids -> InitRows]
    /\ cache = CacheOf(store)
    /\ now = 0
    /\ cpc = "idle"
    /\ accounts = {}
    /\ submitted = {}
    /\ left = [batches |-> MaxBatches, resets |-> 0, deletes |-> 0]
    /\ upc = [i \in Ids |-> "idle"]
    /\ obj = [i \in Ids |-> store[i]]
    /\ dirty = [i \in Ids |-> {}]
    /\ success = [i \in Ids |-> "none"]
    /\ robj = store
    /\ rdirty = {}
    /\ rtodo = {}
    /\ hist = [i \in Ids |-> NoHist]
    /\ rhist = NoRHist(store)
    /\ faulted = FALSE
    /\ cexc = FALSE
    /\ InitScheduler
    /\ InitPool

SpecFault == InitFault /\ [][NextFault]_vars

\* external tooling deletes the row of an account that a batch has loaded
\* and whose unit has not started
hard_delete(i) ==
    /\ store[i] # NoRow
    /\ i \in accounts
    /\ upc[i] \in {"idle", "queued"}
    /\ cpc \in {"submit", "join"}
    /\ left.deletes > 0
    /\ left' = [left EXCEPT !.deletes = @ - 1]
    /\ store' = [store EXCEPT ![i] = NoRow]
    /\ UNCHANGED <<cache, now, cpc, accounts, submitted, upc, obj, dirty,
                   success, robj, rdirty, rtodo, hist, rhist, faulted, cexc,
                   schedvars, pool>>

NextGone ==
    \/ NextFault
    \/ \E i \in Ids : hard_delete(i)

\* one batch whose store calls may raise and whose accounts may be deleted
\* before their unit starts
InitGone ==
    /\ store \in [Ids -> InitRows]
    /\ cache = CacheOf(store)
    /\ now = 0
    /\ cpc = "idle"
    /\ accounts = {}
    /\ submitted = {}
    /\ left = [batches |-> MaxBatches, resets |-> 0, deletes |-> MaxDeletes]
    /\ upc = [i \in Ids |-> "idle"]
    /\ obj = [i \in Ids |-> store[i]]
    /\ dirty = [i \in Ids |-> {}]
    /\ success = [i \in Ids |-> "none"]
    /\ robj = store
    /\ rdirty = {}
    /\ rtodo = {}
    /\ hist = [i \in Ids |-> NoHist]
    /\ rhist = NoRHist(store)
    /\ faulted = FALSE
    /\ cexc = FALSE
    /\ InitScheduler
    /\ InitPool

SpecGone == InitGone /\ [][NextGone]_vars

----------------------------------------------------------------------------
(* run_scheduler and stop_scheduler, with the schedule module *)

\* positions of a thread between line 240 and the end of line 256
InScheduler == {"register", "test", "run_pending", "pending", "job", "sleep",
                "finally"}

\* positions of a thread inside the while loop of lines 249-251
InLoop == {"test", "run_pending", "pending", "job", "sleep"}

\* positions of a thread inside schedule.run_pending
InRunPending == {"pending", "job"}

\* line 256 with the flag left as it is
FlagAfterLoop_unchanged(r) == r

\* line 256: the value the finally block leaves in _running
FlagAfterLoop(r) == FALSE

vars_units == <<store, cache, now, cpc, accounts, submitted, left, upc, obj,
                dirty, success, robj, rdirty, rtodo, hist, rhist, faulted,
                cexc, pool>>

\* lines 235-238: the test of the flag; a call that finds it set returns
run_scheduler_call(t) ==
    /\ spc[t] = "idle"
    /\ sleft.starts > 0
    /\ sleft' = [sleft EXCEPT !.starts = @ - 1]
    /\ spc' = [spc EXCEPT ![t] = IF _running THEN "idle" ELSE "set"]
    /\ shist' = [shist EXCEPT !.stopped = FALSE, !.raised[t] = FALSE]
    /\ UNCHANGED <<_running, jobs, due, todo, cur, vars_units>>

\* line 240: _running = True
run_scheduler_set(t) ==
    /\ spc[t] = "set"
    /\ _running' = TRUE
    /\ spc' = [spc EXCEPT ![t] = "register"]
    /\ UNCHANGED <<jobs, due, todo, cur, shist, sleft, vars_units>>

\* lines 243-244: both jobs are appended to the schedule module's job list
run_scheduler_register(t) ==
    /\ spc[t] = "register"
    /\ jobs' = jobs \o <<"interval", "daily">>
    /\ spc' = [spc EXCEPT ![t] = "test"]
    /\ UNCHANGED <<_running, due, todo, cur, shist, sleft, vars_units>>

\* line 249: while _running
run_scheduler_while(t) ==
    /\ spc[t] = "test"
    /\ spc' = [spc EXCEPT ![t] = IF _running THEN "run_pending" ELSE "finally"]
    /\ UNCHANGED <<_running, jobs, due, todo, cur, shist, sleft, vars_units>>

\* line 250: run_pending collects the jobs that are due
run_pending_begin(t) ==
    /\ spc[t] = "run_pending"
    /\ todo' = [todo EXCEPT ![t] = due]
    /\ spc' = [spc EXCEPT ![t] = "pending"]
    /\ UNCHANGED <<_running, jobs, due, cur, shist, sleft, vars_units>>

\* line 250: run_pending calls the function of the next collected job
run_pending_job(t) ==
    /\ spc[t] = "pending"
    /\ todo[t] # {}
    /\ LET j == Min(todo[t]) IN
        /\ cur' = [cur EXCEPT ![t] = j]
        /\ todo' = [todo EXCEPT ![t] = @ \ {j}]
        /\ shist' = [shist EXCEPT !.late =
                        @ \/ (shist.stopped /\ jobs[j] = "interval")]
    /\ spc' = [spc EXCEPT ![t] = "job"]
    /\ UNCHANGED <<_running, jobs, due, sleft, vars_units>>

\* lines 168-193, 195-229: the job function returns and the schedule module
\* sets the job's next run
job_returns(t) ==
    /\ spc[t] = "job"
    /\ due' = due \ {cur[t]}
    /\ cur' = [cur EXCEPT ![t] = 0]
    /\ spc' = [spc EXCEPT ![t] = "pending"]
    /\ UNCHANGED <<_running, jobs, todo, shist, sleft, vars_units>>

\* lines 193, 229 raising: db.close() in the finally block of the job
\* function raises, which leaves run_pending and is caught at line 253
job_raises(t) ==
    /\ spc[t] = "job"
    /\ sleft.faults > 0
    /\ sleft' = [sleft EXCEPT !.faults = @ - 1]
    /\ cur' = [cur EXCEPT ![t] = 0]
    /\ todo' = [todo EXCEPT ![t] = {}]
    /\ shist' = [shist EXCEPT !.raised[t] = TRUE]
    /\ spc' = [spc EXCEPT ![t] = "finally"]
    /\ UNCHANGED <<_running, jobs, due, vars_units>>

\* line 250-251: run_pending returns, time.sleep(60) begins
run_pending_end(t) ==
    /\ spc[t] = "pending"
    /\ todo[t] = {}
    /\ spc' = [spc EXCEPT ![t] = "sleep"]
    /\ UNCHANGED <<_running, jobs, due, todo, cur, shist, sleft, vars_units>>

\* line 251: time.sleep(60) returns
sleep_returns(t) ==
    /\ spc[t] = "sleep"
    /\ spc' = [spc EXCEPT ![t] = "test"]
    /\ UNCHANGED <<_running, jobs, due, todo, cur, shist, sleft, vars_units>>

\* lines 255-256: finally: _running = False, and run_scheduler returns
run_scheduler_finally(t) ==
    /\ spc[t] = "finally"
    /\ _running' = FlagAfterLoop(_running)
    /\ spc' = [spc EXCEPT ![t] = "idle"]
    /\ UNCHANGED <<jobs, due, todo, cur, shist, sleft, vars_units>>

\* lines 258-262: _running = False, called from any other thread
stop_scheduler ==
    /\ sleft.stops > 0
    /\ sleft' = [sleft EXCEPT !.stops = @ - 1]
    /\ _running' = FALSE
    /\ shist' = [shist EXCEPT !.stopped = TRUE]
    /\ UNCHANGED <<spc, jobs, due, todo, cur, vars_units>>

\* time passes: the next run of some registered jobs comes
time_passes ==
    /\ sleft.ticks > 0
    /\ sleft' = [sleft EXCEPT !.ticks = @ - 1]
    /\ \E D \in SUBSET (1 .. Len(jobs)) :
        /\ D # {}
        /\ D \cap due = {}
        /\ due' = due \cup D
    /\ UNCHANGED <<_running, spc, jobs, todo, cur, shist, vars_units>>

SchedulerSteps ==
    \E t \in Callers :
        \/ run_scheduler_call(t)
        \/ run_scheduler_set(t)
        \/ run_scheduler_register(t)
        \/ run_scheduler_while(t)
        \/ run_pending_begin(t)
        \/ run_pending_job(t)
        \/ job_returns(t)
        \/ job_raises(t)
        \/ run_pending_end(t)
        \/ sleep_returns(t)
        \/ run_scheduler_finally(t)

NextSched ==
    \/ SchedulerSteps
    \/ stop_scheduler
    \/ time_passes

\* the scheduler alone: its job functions are taken as one call and return
InitSched ==
    /\ store = [i \in Ids |-> Gone]
    /\ cache = CacheOf(store)
    /\ now = 0
    /\ cpc = "idle"
    /\ accounts = {}
    /\ submitted = {}
    /\ left = [batches |-> 0, resets |-> 0, deletes |-> 0]
    /\ upc = [i \in Ids |-> "idle"]
    /\ obj = [i \in Ids |-> store[i]]
    /\ dirty = [i \in Ids |-> {}]
    /\ success = [i \in Ids |-> "none"]
    /\ robj = store
    /\ rdirty = {}
    /\ rtodo = {}
    /\ hist = [i \in Ids |-> NoHist]
    /\ rhist = NoRHist(store)
    /\ faulted = FALSE
    /\ cexc = FALSE
    /\ InitScheduler
    /\ InitPool

SpecSched == InitSched /\ [][NextSched]_vars

----------------------------------------------------------------------------
(* The executor of one batch with more accounts than worker threads. The
   units are alike to the executor, so the pool is kept as counts: accounts
   still to submit, worker threads, queued work items, units executing,
   units ended, sessions opened and closed. *)

vars_nopool == <<store, cache, now, cpc, accounts, submitted, left, upc, obj,
                 dirty, success, robj, rdirty, rtodo, hist, rhist, faulted,
                 cexc, schedvars>>

\* line 183 with no limit on the worker threads
MaySpawn_unbounded(n) == TRUE

\* line 183: max_workers=MAX_WORKER_THREADS; the executor starts a worker
\* thread only below that number
MaySpawn(n) == n < MAX_WORKER_THREADS

\* lines 184-185: executor.submit queues the unit; the executor starts a
\* worker thread when none is idle, and may start one when some is, up to
\* its limit
executor_submit ==
    /\ pool.tosubmit > 0
    /\ \E spawn \in BOOLEAN :
        /\ spawn => MaySpawn(pool.threads)
        /\ (~spawn /\ MaySpawn(pool.threads)) => pool.threads > pool.running
        /\ pool' = [pool EXCEPT !.tosubmit = @ - 1,
                                !.queued = @ + 1,
                                !.threads = IF spawn THEN @ + 1 ELSE @]
    /\ UNCHANGED vars_nopool

\* lines 143-147: an idle worker thread takes a queued unit, which opens its
\* own session with next(get_db())
worker_takes_unit ==
    /\ pool.queued > 0
    /\ pool.running < pool.threads
    /\ pool' = [pool EXCEPT !.queued = @ - 1,
                            !.running = @ + 1,
                            !.opened = @ + 1]
    /\ UNCHANGED vars_nopool

\* lines 148-166: the unit runs to its end and closes its session; its
\* worker thread is idle again
unit_ends ==
    /\ pool.running > 0
    /\ pool' = [pool EXCEPT !.running = @ - 1,
                            !.done = @ + 1,
                            !.closed = @ + 1]
    /\ UNCHANGED vars_nopool

NextPool ==
    \/ executor_submit
    \/ worker_takes_unit
    \/ unit_ends

\* line 183: a batch that found between 1 and PoolAccounts live accounts
InitPoolBatch ==
    /\ store = [i \in Ids |-> Gone]
    /\ cache = CacheOf(store)
    /\ now = 0
    /\ cpc = "idle"
    /\ accounts = {}
    /\ submitted = {}
    /\ left = [batches |-> 0, resets |-> 0, deletes |-> 0]
    /\ upc = [i \in Ids |-> "idle"]
    /\ obj = [i \in Ids |-> store[i]]
    /\ dirty = [i \in Ids |-> {}]
    /\ success = [i \in Ids |-> "none"]
    /\ robj = store
    /\ rdirty = {}
    /\ rtodo = {}
    /\ hist = [i \in Ids |-> NoHist]
    /\ rhist = NoRHist(store)
    /\ faulted = FALSE
    /\ cexc = FALSE
    /\ InitScheduler
    /\ \E n \in 1 .. PoolAccounts :
        pool = [total |-> n, tosubmit |-> n, threads |-> 0, queued |-> 0,
                running |-> 0, done |-> 0, opened |-> 0, closed |-> 0]

\* the submitting thread and the worker threads keep being scheduled
SpecPool == InitPoolBatch /\ [][NextPool]_vars /\ WF_vars(NextPool)

----------------------------------------------------------------------------
(* Properties *)

CredentialFields == {"silent_cookies", "access_token", "cookies_expires",
                     "token_expires"}

\* the unit of account i has left refresh_cookies
Returned(i) == upc[i] \in {"enable", "enable_cache", "disable", "disable_cache",
                           "close", "done"}

\* the unit of account i has applied its transition
Ended(i) == upc[i] \in {"enable_cache", "disable_cache", "close", "done"}

\* C1: when the Refresh Client reports failure, an empty mapping or an empty
\* access token, or raises, refresh_cookies returns false, the unit commits
\* enable = 0, and the credential and expiry fields keep the values they had
\* before the attempt.
C1_FailedRefreshDisables ==
    \A i \in Ids :
        hist[i].refresh = "failure" =>
            /\ success[i] = "false"
            /\ \A f \in CredentialFields : store[i][f] = hist[i].row0[f]
            /\ Ended(i) => store[i].enable = 0

C1_Witness ==
    \E i \in Ids :
        /\ upc[i] = "done"
        /\ hist[i].refresh = "failure"
        /\ hist[i].row0.enable = 1
        /\ store[i].enable = 0

\* C2: once line 96 has committed, the unit ends with enable = 1 whatever the
\* sign-in and auth-info calls do.
C2_CommittedStaysEnabled ==
    \A i \in Ids :
        (upc[i] = "done" /\ hist[i].committed3) => store[i].enable = 1

\* C3: no unit of work processes an account whose deleted_at is set: the row
\* a unit loaded, refreshes, enables or disables and mirrors was live when
\* the unit loaded it, also when the account was soft-deleted between the
\* batch's query and the unit's start.
C3_DeletedNeverProcessed ==
    \A i \in Ids :
        upc[i] \notin {"idle", "queued"} => hist[i].row0.deleted_at = "NULL"

\* C5: when the Refresh Client reports success, nothing of the answer is in
\* the store before line 96 commits, and from that commit until
\* refresh_cookies returns the store holds enable = 1, the blob that parses
\* to the updated mapping, the returned access token, cookies_expires =
\* now + 30 days and token_expires = now + 15 minutes.
C5_AcceptedRefreshCommitted ==
    \A i \in Ids :
        hist[i].refresh = "success" =>
            /\ upc[i] = "commit" =>
                    \A f \in CredentialFields : store[i][f] = hist[i].row0[f]
            /\ upc[i] \in {"signin", "authinfo", "enable", "disable"} =>
                    /\ store[i].enable = 1
                    /\ json_loads(store[i].silent_cookies) = hist[i].answer
                    /\ store[i].access_token = hist[i].token_got
                    /\ store[i].cookies_expires = hist[i].at + 30 * 24 * 60
                    /\ store[i].token_expires = hist[i].at + 15

C5_Witness ==
    \E i \in Ids :
        /\ upc[i] = "enable"
        /\ hist[i].refresh = "success"
        /\ hist[i].at = 1
        /\ store[i].silent_cookies # hist[i].row0.silent_cookies

\* C4: with a cache that never fails, whenever no batch and no daily reset is
\* in progress, a disabled account is in neither cache partition and an
\* enabled account is in the free partition, and in the paid partition when
\* its account_type is 'paid'.
C4_CacheMirrorsEnable ==
    (~faulted /\ cpc = "idle") =>
        \A i \in Ids :
            /\ store[i].enable = 0 =>
                    \A p \in Partitions : cache[p][i] = NoEntry
            /\ store[i].enable = 1 =>
                    /\ cache["free"][i] # NoEntry
                    /\ store[i].account_type = "paid" => cache["paid"][i] # NoEntry

IsJsonObject(text) == text # <<>> /\ json_loads(text).kind = "dict"

\* C6: when the stored blob is empty or is not a JSON object, the Refresh
\* Client is not called, refresh_cookies returns false, the credential fields
\* stay as they were and the account is disabled.
C6_NonObjectBlobRejected ==
    \A i \in Ids :
        (upc[i] \notin {"idle", "queued"}
            /\ ~IsJsonObject(hist[i].row0.silent_cookies)) =>
            /\ "refresh" \notin hist[i].called
            /\ Returned(i) =>
                    /\ success[i] = "false"
                    /\ \A f \in CredentialFields : store[i][f] = hist[i].row0[f]
            /\ Ended(i) => store[i].enable = 0

\* C9: a run calls signin_with_access_token only after line 96 has committed
\* an access token and only when the account had no session token stored
\* when the run loaded it.
C9_SigninOnlyWithoutToken ==
    \A i \in Ids :
        "signin" \in hist[i].called =>
            /\ hist[i].committed3
            /\ store[i].access_token # ""
            /\ hist[i].row0.token = ""

C9_Witness ==
    \E i \in Ids :
        /\ Returned(i)
        /\ hist[i].committed3
        /\ hist[i].row0.token = "sess1"
        /\ "signin" \notin hist[i].called

\* what a unit has committed by the time it ends, from the row it loaded and
\* the answers of the Refresh Client alone
ExpectedRow(h) ==
    LET r1 == IF h.refresh = "success"
              THEN [h.row0 EXCEPT !.silent_cookies = json_dumps(h.answer),
                                  !.access_token = h.token_got,
                                  !.cookies_expires = h.at + 30 * 24 * 60,
                                  !.token_expires = h.at + 15,
                                  !.updated_at = h.at]
              ELSE h.row0
        r2 == IF h.signin = "answered" THEN [r1 EXCEPT !.token = h.session] ELSE r1
        r3 == IF h.auth = "answered" /\ h.data.v # <<>>
              THEN [r2 EXCEPT !.auth = json_dumps(h.data),
                              !.account_type = AccountTypeOf(h.data)]
              ELSE r2
        ok == h.refresh = "success" /\ h.signin # "raised" /\ h.auth = "answered"
    IN  [r3 EXCEPT !.enable = IF ok THEN 1 ELSE 0]

\* C7: what a unit of work and the daily reset commit does not depend on the
\* cache: whether the probe answers up or down or raises and whether the cache
\* calls raise, a unit leaves the row that the loaded row and the Refresh
\* Client's answers determine, and the daily reset leaves count = 0 in
\* exactly the live enabled accounts it found.
C7_StoreIndependentOfCache ==
    /\ \A i \in Ids :
        Ended(i) =>
            \A f \in Fields \ {"count", "deleted_at"} :
                store[i][f] = ExpectedRow(hist[i])[f]
    /\ rhist.phase = "finished" =>
        \A i \in Ids :
            rhist.store1[i].count =
                IF i \in Resettable(rhist.store0) THEN 0 ELSE rhist.store0[i].count

C7_Witness ==
    /\ \E i \in Ids :
        /\ upc[i] = "done"
        /\ store[i].enable = 0
        /\ cache["free"][i] # NoEntry
    /\ rhist.phase = "finished"
    /\ \E j \in rhist.loaded :
        /\ rhist.store0[j].count > 0
        /\ j \in rhist.failed
        /\ store[j].count = 0

\* the accounts the daily reset is to change, in the store it found
Qualifying(rows) ==
    {i \in Ids : rows[i].deleted_at = "NULL" /\ rows[i].enable = 1 /\ rows[i].count > 0}

\* the frame of the daily reset: the qualifying accounts end with count = 0
\* and nothing else changed, their cache block ran and put them into their
\* partitions unless it failed; no other account has a field changed or a
\* cache entry written
ResetFrame(h) ==
    \A i \in Ids :
        /\ \A f \in Fields \ {"count", "deleted_at"} : h.store1[i][f] = h.store0[i][f]
        /\ IF i \in Qualifying(h.store0)
           THEN /\ h.store1[i].count = 0
                /\ \A p \in Partitions :
                    <<i, p>> \in h.puts => (p = "free" \/ h.store0[i].account_type = "paid")
                /\ i \notin h.failed =>
                    /\ <<i, "free">> \in h.puts
                    /\ h.cache1["free"][i] = [enable |-> 1, count |-> 0]
                    /\ h.store0[i].account_type = "paid" =>
                        /\ <<i, "paid">> \in h.puts
                        /\ h.cache1["paid"][i] = [enable |-> 1, count |-> 0]
           ELSE /\ h.store1[i].count = h.store0[i].count
                /\ i \notin h.failed
                /\ \A p \in Partitions :
                    <<i, p>> \notin h.puts /\ h.cache1[p][i] = h.cache0[p][i]

\* C10 as claimed: the frame, and no commit when no account qualifies.
C10_ResetFrameNoCommit ==
    rhist.phase = "finished" =>
        /\ ResetFrame(rhist)
        /\ Qualifying(rhist.store0) = {} => rhist.commits = 0

\* C10 as amended: the frame; no commit is issued when the query finds no
\* live enabled account, and one commit is issued otherwise, also when none
\* of the accounts found has count > 0.
C10_ResetFrame ==
    rhist.phase = "finished" =>
        /\ ResetFrame(rhist)
        /\ rhist.commits =
            IF \E i \in Ids : rhist.store0[i].deleted_at = "NULL"
                                /\ rhist.store0[i].enable = 1
            THEN 1 ELSE 0

C10_Witness ==
    /\ rhist.phase = "finished"
    /\ \E i \in Qualifying(rhist.store0) :
        store[i].count = 0 /\ rhist.store0[i].account_type = "paid"
    /\ \E i \in Ids :
        /\ i \notin Qualifying(rhist.store0)
        /\ rhist.store0[i].count > 0

\* the batch has joined its units and returned
BatchOver == cpc = "idle" /\ submitted # {}

\* C8: an exception raised inside the unit of one account (session open,
\* lookup, Refresh Client call, commit, cache call, session close) never
\* runs the except clause of check_and_refresh_accounts, and when the batch
\* is over every dispatched unit has ended and every unit whose own store
\* calls did not raise has committed the enable or disable outcome, and the
\* row, that its loaded row and the Refresh Client's answers determine.
C8_UnitFailureIsolated ==
    /\ ~cexc
    /\ BatchOver =>
        \A j \in submitted :
            /\ upc[j] = "done"
            /\ ~hist[j].raised =>
                /\ hist[j].outcome \in {"enabled", "disabled"}
                /\ \A f \in Fields \ {"count", "deleted_at"} :
                    store[j][f] = ExpectedRow(hist[j])[f]

C8_Witness ==
    /\ BatchOver
    /\ \E k \in submitted :
        /\ hist[k].escaped
        /\ \E j \in submitted \ {k} :
            /\ ~hist[j].raised
            /\ hist[j].outcome = "enabled"
            /\ store[j].enable = 1
            /\ "refresh" \in hist[j].called


\* the registered jobs of one kind
JobsOf(kind) == {j \in 1 .. Len(jobs) : jobs[j] = kind}

\* C11: under any interleaving of run_scheduler and stop_scheduler calls, a
\* start call made while the flag is set changes nothing, and at most one
\* thread is inside schedule.run_pending at any time.
C11_OneLoop ==
    Cardinality({t \in Callers : spc[t] \in InRunPending}) <= 1

\* C12: once stop_scheduler has returned and run_scheduler has not been
\* called since, run_pending calls check_and_refresh_accounts no more.
C12_NoBatchAfterStop == ~shist.late

\* C18: a thread whose loop body raised has left the loop and runs no job
\* until it calls run_scheduler again, and whenever no thread is between
\* line 240 and the end of the finally block of run_scheduler the flag
\* _running is False.
C18_LoopExitClearsFlag ==
    /\ (\A t \in Callers : spc[t] \notin InScheduler) => ~_running
    /\ \A t \in Callers :
        shist.raised[t] => spc[t] \in {"finally", "idle"} /\ cur[t] = 0

C18_Witness ==
    /\ \E t \in Callers : shist.raised[t] /\ spc[t] = "idle"
    /\ \A t \in Callers : spc[t] \notin InScheduler
    /\ ~shist.stopped
    /\ ~_running
    /\ due # {}

\* C20: while a thread is in the loop of run_scheduler, exactly one interval
\* job and one daily job are registered, whatever run_scheduler and
\* stop_scheduler calls came before.
C20_OneTriggerEach ==
    (\E t \in Callers : spc[t] \in InLoop) =>
        /\ Cardinality(JobsOf("interval")) = 1
        /\ Cardinality(JobsOf("daily")) = 1


\* what C13 asks of every step
C13_Step ==
    /\ left'.batches < left.batches =>
        accounts' = {i \in Ids : store[i].deleted_at = "NULL"}
    /\ \A i \in Ids :
        /\ (upc[i] # "queued" /\ upc'[i] = "queued") =>
            /\ i \in accounts
            /\ i \notin submitted
            /\ submitted' = submitted \cup {i}
        /\ (store[i].enable = 0 /\ store'[i].enable = 1) =>
            /\ upc[i] \in {"commit", "enable"}
            /\ hist[i].refresh = "success"

\* C13: the query of a batch loads every account that is not soft-deleted,
\* enabled or disabled alike; the batch submits one unit for each of them
\* and none twice; enable goes from 0 to 1 only in a unit whose refresh was
\* accepted, never in the daily reset; and a unit ends with enable = 1
\* exactly when refresh_cookies returned True.
C13_OneUnitPerLiveAccount ==
    /\ [](cpc = "join" => submitted = accounts)
    /\ [](\A i \in Ids :
            upc[i] = "done" => (store[i].enable = 1 <=> success[i] = "true"))
    /\ [][C13_Step]_vars

C13_Witness ==
    /\ left.batches = 0
    /\ rhist.phase = "finished"
    /\ \E i \in Ids :
        /\ upc[i] = "done"
        /\ hist[i].row0.enable = 0
        /\ hist[i].row0.silent_cookies = TextAB
        /\ success[i] = "true"
        /\ store[i].enable = 1


\* C14: the cache is written only after the store commit of what is
\* mirrored: a unit is at its cache block only with its enable flag
\* committed, and a cache put of the daily reset has gone through only for
\* an account whose count = 0 is committed.
C14_CommitBeforeCache ==
    /\ \A i \in Ids :
        /\ upc[i] = "enable_cache" => store[i].enable = 1
        /\ upc[i] = "disable_cache" => store[i].enable = 0
    /\ \A e \in rhist.puts : store[e[1]].count = 0


\* C15: signin_with_access_token and fetch_auth_info are called only after
\* line 96 has committed, and in every state the store holds either the
\* blob, access token, both expiries and updated_at the unit loaded, or the
\* new blob and access token with cookies_expires = now + 30 days,
\* token_expires = now + 15 minutes and updated_at = now: never a new blob
\* with an old expiry.
C15_CredentialsCommitTogether ==
    \A i \in Ids :
        /\ (upc[i] \in {"signin", "authinfo"}
                \/ hist[i].called \cap {"signin", "authinfo"} # {}) =>
            hist[i].committed3
        /\ upc[i] \in {"signin", "authinfo"} => store[i].enable = 1
        /\ upc[i] \notin {"idle", "queued"} =>
            IF hist[i].committed3
            THEN /\ store[i].silent_cookies = json_dumps(hist[i].answer)
                 /\ store[i].access_token = hist[i].token_got
                 /\ store[i].cookies_expires = hist[i].at + 30 * 24 * 60
                 /\ store[i].token_expires = hist[i].at + 15
                 /\ store[i].updated_at = hist[i].at
            ELSE \A f \in CredentialFields \cup {"updated_at"} :
                    store[i][f] = hist[i].row0[f]

C15_Witness ==
    \E i \in Ids :
        /\ upc[i] = "authinfo"
        /\ "signin" \in hist[i].called
        /\ store[i].silent_cookies # hist[i].row0.silent_cookies
        /\ store[i].cookies_expires # hist[i].row0.cookies_expires
        /\ store[i].token = ""


\* C16: at most MAX_WORKER_THREADS units execute at any moment, a unit
\* beyond that stays queued until a worker thread is free, every unit opens
\* one session of its own and the open sessions are those of the executing
\* units, and every submitted unit is eventually run to its end.
C16_BoundedPool ==
    /\ [](/\ pool.running <= MAX_WORKER_THREADS
          /\ pool.running <= pool.threads
          /\ pool.opened = pool.running + pool.done
          /\ pool.opened - pool.closed = pool.running
          /\ pool.tosubmit + pool.queued + pool.running + pool.done
                = pool.total)
    /\ <>[](pool.done = pool.total)

C16_Witness ==
    /\ pool.running = MAX_WORKER_THREADS
    /\ pool.queued = 2
    /\ pool.tosubmit = 0


\* C17: a unit that has ended and had opened a session has called close on
\* it, whether the refresh succeeded, failed, a store call raised or the
\* account was not found; a unit that did not find its account has called
\* no client and has changed neither the store nor the cache.
C17_SessionClosedOnEveryPath ==
    \A i \in Ids :
        /\ (upc[i] = "done" /\ hist[i].opened) => hist[i].closed
        /\ hist[i].outcome = "not_found" =>
            /\ upc[i] \in {"close", "done"}
            /\ hist[i].called = {}
            /\ store[i] = NoRow
            /\ \A p \in Partitions : cache[p][i] = hist[i].cache0[p]

C17_Witness ==
    \E i, j \in Ids :
        /\ upc[i] = "done" /\ upc[j] = "done"
        /\ hist[i].outcome = "not_found"
        /\ hist[i].cache0["free"] # NoEntry
        /\ hist[i].opened /\ hist[i].closed
        /\ hist[j].raised /\ ~hist[j].escaped
        /\ hist[j].opened /\ hist[j].closed


\* C19: with check_and_refresh_accounts and reset_account_counts called
\* from the one thread of the start-up call and the scheduler loop, a batch
\* has returned only with every unit it submitted ended, so no unit is in
\* flight while the daily reset runs or when the next batch starts, and a
\* unit in flight belongs to the running batch, which submitted it once.
C19_NoOverlap ==
    /\ cpc \in {"idle", "reset_loop"} =>
        \A i \in Ids : upc[i] \in {"idle", "done"}
    /\ \A i \in Ids :
        upc[i] \notin {"idle", "done"} =>
            /\ cpc \in {"submit", "join"}
            /\ i \in submitted

C19_Witness ==
    /\ left.batches = 0
    /\ cpc = "join"
    /\ rhist.phase = "finished"
    /\ rhist.commits = 1
    /\ \E i \in Ids :
        /\ upc[i] = "refresh"
        /\ hist[i].row0.updated_at = 0
        /\ hist[i].row0.access_token = "tok123"


====
